---- MODULE Spec2Model ----
(***************************************************************************)
(* Model of src/component/dataset.py: the sliding-window EvalDataset and   *)
(* the two instruction-tuning datasets VicunaSFTDataset (hard truncation)  *)
(* and LlamaSFTDataset (proportional cutting).                             *)
(*                                                                         *)
(* A state is one constructed dataset object (its kind and its fields)     *)
(* together with the last __getitem__ access: the token sequences the      *)
(* tokenizer returned for the accessed line, and the sample that came back *)
(* (or the exception that ended the access).                               *)
(***************************************************************************)
EXTENDS Integers, Sequences, FiniteSets, TLC

VARIABLES kind, max_seq_length, pad_token_id, sliding_window, token_list,
          data_list, index, prompt_tokens, output_tokens, sample, status

vars == <<kind, max_seq_length, pad_token_id, sliding_window, token_list,
          data_list, index, prompt_tokens, output_tokens, sample, status>>

config == <<kind, max_seq_length, pad_token_id, sliding_window, token_list,
            data_list>>

(***************************************************************************)
(* Bounds of the model.                                                    *)
(***************************************************************************)
MaxSeqLength == 15
MaxPromptLen == 9
MaxOutputLen == 9
MaxStreamLen == 10
MaxSlidingWindow == 5

(***************************************************************************)
(* Configuration values.  ignore_index is the default of every             *)
(* constructor; the pad and eos ids are attributes of the tokenizer (the   *)
(* pad id is either a dedicated id or, as is common, the eos id itself).   *)
(***************************************************************************)
ignore_index == -100
eos_token_id == 2
PadTokenIds == {0, eos_token_id}

Min(a, b) == IF a <= b THEN a ELSE b

(***************************************************************************)
(* Python list primitives used by the code.                                *)
(*   Repeat(v, n)   is [v] * n     (empty when n <= 0)                     *)
(*   Slice(s, i, j) is s[i:j]      for 0 <= i <= j                         *)
(***************************************************************************)
Repeat(v, n) == [i \in 1..n |-> v]

Slice(s, i, j) ==
    IF i >= Min(j, Len(s)) THEN <<>> ELSE SubSeq(s, i + 1, Min(j, Len(s)))

(***************************************************************************)
(* The tokenizer is a black box mapping a text to a sequence of ordinary   *)
(* token ids (no special tokens are added, so neither the eos id nor the   *)
(* ignore sentinel occurs).  Only the length of its result influences the  *)
(* control flow of the code, so one result is drawn per length, with a     *)
(* different id at every position; prompt, output and evaluation stream    *)
(* use disjoint id ranges.                                                 *)
(***************************************************************************)
Tokenization(base, n) == [i \in 1..n |-> base + i]

PromptTokenizations == { Tokenization(100, n) : n \in 0..MaxPromptLen }
OutputTokenizations == { Tokenization(200, n) : n \in 0..MaxOutputLen }
TokenStreams == { Tokenization(300, n) : n \in 0..MaxStreamLen }

(***************************************************************************)
(* Steps shared by the two instruction-tuning datasets.                    *)
(***************************************************************************)

\* output_ids + [eos_token_id]
AppendEos_Forgotten(output_ids) == output_ids
AppendEos_Prepended(output_ids) == <<eos_token_id>> \o output_ids
AppendEos(output_ids) == output_ids \o <<eos_token_id>>

\* [ignore_index] * len(prompt_ids) + output_ids
MaskedLabels_Unmasked(prompt_ids, output_ids) == prompt_ids \o output_ids
MaskedLabels(prompt_ids, output_ids) ==
    Repeat(ignore_index, Len(prompt_ids)) \o output_ids

\* ids[:max_seq_length]
Truncate_FromFront(ids, msl) ==
    IF Len(ids) <= msl THEN ids ELSE SubSeq(ids, Len(ids) - msl + 1, Len(ids))
Truncate(ids, msl) == Slice(ids, 0, msl)

\* ids += [filler] * (max_seq_length - len(input_ids))
PadRight_OneShort(ids, filler, msl) == ids \o Repeat(filler, msl - Len(ids) - 1)
PadRight(ids, filler, msl) == ids \o Repeat(filler, msl - Len(ids))

\* [1] * len(input_ids), then += [0] * padding_len
AttentionMask_AllOnes(input_ids, msl) == Repeat(1, msl)
AttentionMask(input_ids, msl) ==
    PadRight(Repeat(1, Len(input_ids)), 0, msl)

(***************************************************************************)
(* VicunaSFTDataset.__getitem__ on a line whose prompt tokenizes to P and  *)
(* whose output tokenizes to O.                                            *)
(***************************************************************************)
VicunaSample(P, O, msl, pad) ==
    LET output_ids == AppendEos(O)
        full_ids   == P \o output_ids
        full_lab   == MaskedLabels(P, output_ids)
        input_ids  == Truncate(full_ids, msl)
        labels     == Truncate(full_lab, msl)
    IN  [ input_ids      |-> PadRight(input_ids, pad, msl),
          attention_mask |-> AttentionMask(input_ids, msl),
          labels         |-> PadRight(labels, ignore_index, msl) ]

VicunaOutcome(P, O, msl, pad) ==
    IF Len(P \o AppendEos(O)) # Len(MaskedLabels(P, AppendEos(O)))
    THEN [status |-> "AssertionError", sample |-> <<>>]
    ELSE [status |-> "returned", sample |-> VicunaSample(P, O, msl, pad)]

(***************************************************************************)
(* LlamaSFTDataset.__getitem__: the proportional cut.                      *)
(*                                                                         *)
(* The code computes, in IEEE-754 double precision,                        *)
(*     scale_size = total_len / (max_seq_length - 1)                       *)
(*     math.floor(length / scale_size)                                     *)
(* that is floor(RN(length / RN(total_len / budget))), RN being rounding   *)
(* to the nearest double.  FloorDivByScale computes that value with        *)
(* integers, for total_len > budget >= 1 and 0 <= length <= total_len:     *)
(*  - when total_len does not divide length * budget, the exact quotient   *)
(*    is at least 1/total_len away from an integer, far more than the two  *)
(*    roundings move it, and the result is floor(length*budget/total_len); *)
(*  - when it does, the exact quotient is an integer k and the result is k *)
(*    unless scale_size was rounded up by so much that length / scale_size *)
(*    falls below the midpoint between k and the double preceding k, in    *)
(*    which case the result is k - 1.                                      *)
(* With scale_size = M * 2^(j - MantissaBits), M the integer significand   *)
(* and 2^j <= total_len / budget < 2^(j+1), the remainder                  *)
(*     r = (total_len * 2^(MantissaBits - j)) mod budget                   *)
(* tells how the first division was rounded (down when 2r <= budget; a tie *)
(* needs budget >= 2^22), and the second rounding yields a value below k   *)
(* exactly when total_len * 2^(n - j - 2) < (budget - r) * k, n being the  *)
(* least exponent with 2^n >= k.                                           *)
(***************************************************************************)
MantissaBits == 52

RECURSIVE Pow2(_)
Pow2(n) == IF n <= 0 THEN 1 ELSE 2 * Pow2(n - 1)

\* the largest j with budget * 2^j <= total_len
RECURSIVE BinaryExponent(_, _)
BinaryExponent(total_len, budget) ==
    IF 2 * budget <= total_len
    THEN 1 + BinaryExponent(total_len, 2 * budget)
    ELSE 0

\* the least n with 2^n >= k
RECURSIVE CeilLog2(_)
CeilLog2(k) == IF k <= 1 THEN 0 ELSE 1 + CeilLog2((k + 1) \div 2)

\* (r * 2^n) mod m
RECURSIVE ShiftMod(_, _, _)
ShiftMod(r, n, m) == IF n = 0 THEN r % m ELSE ShiftMod((2 * r) % m, n - 1, m)

FloorDivByScale_IntegerScale(length, total_len, budget) ==
    length \div (total_len \div budget)
FloorDivByScale(length, total_len, budget) ==
    LET k == (length * budget) \div total_len
        j == BinaryExponent(total_len, budget)
        r == ShiftMod(total_len, MantissaBits - j, budget)
        e == CeilLog2(k) - j - 2
        roundsBelow ==
            /\ 2 * r > budget
            /\ IF e >= 0
               THEN total_len * Pow2(e) < (budget - r) * k
               ELSE total_len < (budget - r) * k * Pow2(-e)
    IN  IF (length * budget) % total_len # 0 \/ k = 0 THEN k
        ELSE IF roundsBelow THEN k - 1 ELSE k

\* the exception raised while cutting, if any
CutError(P, O, msl) ==
    IF Len(P) + Len(O) > msl - 1 /\ msl - 1 = 0
    THEN "ZeroDivisionError" ELSE "none"

\* input_ids and output_ids after the cut (before the eos is appended)
LlamaCut(P, O, msl) ==
    LET input_len  == Len(P)
        output_len == Len(O)
        total_len  == input_len + output_len
    IN  IF total_len > msl - 1
        THEN [ input_ids  |-> Slice(P, 0, FloorDivByScale(input_len, total_len, msl - 1)),
               output_ids |-> Slice(O, 0, FloorDivByScale(output_len, total_len, msl - 1)) ]
        ELSE [ input_ids |-> P, output_ids |-> O ]

LlamaSample(P, O, msl, pad) ==
    LET cut        == LlamaCut(P, O, msl)
        output_ids == AppendEos(cut.output_ids)
        labels     == MaskedLabels(cut.input_ids, output_ids)
        input_ids  == cut.input_ids \o output_ids
    IN  [ input_ids      |-> PadRight(input_ids, pad, msl),
          attention_mask |-> AttentionMask(input_ids, msl),
          labels         |-> PadRight(labels, ignore_index, msl) ]

LlamaOutcome(P, O, msl, pad) ==
    IF CutError(P, O, msl) # "none"
    THEN [status |-> CutError(P, O, msl), sample |-> <<>>]
    ELSE LET cut        == LlamaCut(P, O, msl)
             output_ids == AppendEos(cut.output_ids)
             labels     == MaskedLabels(cut.input_ids, output_ids)
             input_ids  == cut.input_ids \o output_ids
         IN  IF Len(input_ids) # Len(labels) \/ Len(input_ids) > msl
             THEN [status |-> "AssertionError", sample |-> <<>>]
             ELSE [status |-> "returned", sample |-> LlamaSample(P, O, msl, pad)]

(***************************************************************************)
(* EvalDataset.__init__: one window per start offset of                    *)
(* range(0, len(token_list), sliding_window).                              *)
(***************************************************************************)
WindowCount(n, stride) == (n + stride - 1) \div stride

EvalWindow(tokens, i, msl, pad) ==
    [ input_ids |-> PadRight(Slice(tokens, i, i + msl), pad, msl),
      labels    |-> PadRight(Slice(tokens, i, i + msl), ignore_index, msl) ]

EvalDataList_StrideIsWindow(tokens, msl, stride, pad) ==
    [ k \in 1..WindowCount(Len(tokens), msl) |->
        EvalWindow(tokens, (k - 1) * msl, msl, pad) ]
EvalDataList(tokens, msl, stride, pad) ==
    [ k \in 1..WindowCount(Len(tokens), stride) |->
        EvalWindow(tokens, (k - 1) * stride, msl, pad) ]

(***************************************************************************)
(* The state machine.                                                      *)
(***************************************************************************)
Init ==
    /\ kind \in {"Eval", "Vicuna", "Llama"}
    /\ max_seq_length \in 1..MaxSeqLength
    /\ pad_token_id \in PadTokenIds
    /\ IF kind = "Eval"
       THEN /\ sliding_window \in 1..MaxSlidingWindow
            /\ token_list \in TokenStreams
       ELSE /\ sliding_window = 0
            /\ token_list = <<>>
    /\ data_list = IF kind = "Eval"
                   THEN EvalDataList(token_list, max_seq_length,
                                     sliding_window, pad_token_id)
                   ELSE <<>>
    /\ index = 0
    /\ prompt_tokens = <<>>
    /\ output_tokens = <<>>
    /\ sample = <<>>
    /\ status = "constructed"

\* EvalDataset.__getitem__(i - 1)
EvalGetItem ==
    /\ kind = "Eval"
    /\ \E i \in 1..Len(data_list) :
         /\ index' = i
         /\ sample' = data_list[i]
    /\ status' = "returned"
    /\ UNCHANGED <<config, prompt_tokens, output_tokens>>

\* VicunaSFTDataset.__getitem__ on a line tokenizing to P and O
VicunaGetItem ==
    /\ kind = "Vicuna"
    /\ \E P \in PromptTokenizations, O \in OutputTokenizations :
         /\ prompt_tokens' = P
         /\ output_tokens' = O
         /\ status' = VicunaOutcome(P, O, max_seq_length, pad_token_id).status
         /\ sample' = VicunaOutcome(P, O, max_seq_length, pad_token_id).sample
    /\ UNCHANGED <<config, index>>

\* LlamaSFTDataset.__getitem__ on a line tokenizing to P and O
LlamaGetItem ==
    /\ kind = "Llama"
    /\ \E P \in PromptTokenizations, O \in OutputTokenizations :
         /\ prompt_tokens' = P
         /\ output_tokens' = O
         /\ status' = LlamaOutcome(P, O, max_seq_length, pad_token_id).status
         /\ sample' = LlamaOutcome(P, O, max_seq_length, pad_token_id).sample
    /\ UNCHANGED <<config, index>>

Next == EvalGetItem \/ VicunaGetItem \/ LlamaGetItem

Spec == Init /\ [][Next]_vars

(***************************************************************************)
(* Vocabulary of the properties: everything below is read off the inputs   *)
(* of the last access and the sample it returned.                          *)
(***************************************************************************)
Returned == status = "returned"
SFTReturned == Returned /\ kind \in {"Vicuna", "Llama"}

PromptLen == Len(prompt_tokens)
OutputLen == Len(output_tokens)
Budget == max_seq_length - 1

PromptIdSet == { prompt_tokens[i] : i \in 1..Len(prompt_tokens) }
OutputIdSet == { output_tokens[i] : i \in 1..Len(output_tokens) }

Positions == 1..max_seq_length

\* The real tokens end at the first eos; a sample without eos has no padding.
EosPositions == { j \in 1..Len(sample.input_ids) : sample.input_ids[j] = eos_token_id }
LastReal ==
    IF EosPositions = {} THEN Len(sample.input_ids)
    ELSE CHOOSE j \in EosPositions : \A i \in EosPositions : j <= i

\* numbers of prompt and of output tokens that survive in the sample
KeptPrompt == Cardinality({ j \in 1..LastReal : sample.input_ids[j] \in PromptIdSet })
KeptOutput == Cardinality({ j \in 1..LastReal : sample.input_ids[j] \in OutputIdSet })

(***************************************************************************)
(* C1 (as stated): every sample returned by EvalDataset, VicunaSFTDataset  *)
(* or LlamaSFTDataset carries input_ids, attention_mask and labels, each   *)
(* of length max_seq_length.                                               *)
(***************************************************************************)
C1_AllThreeKeys ==
    Returned =>
        /\ DOMAIN sample = {"input_ids", "attention_mask", "labels"}
        /\ Len(sample.input_ids) = max_seq_length
        /\ Len(sample.attention_mask) = max_seq_length
        /\ Len(sample.labels) = max_seq_length

(***************************************************************************)
(* C1 (amended): every returned sample has input_ids and labels of length  *)
(* max_seq_length; the samples of VicunaSFTDataset and LlamaSFTDataset     *)
(* also carry an attention_mask of that length, while the samples of       *)
(* EvalDataset carry input_ids and labels only.                            *)
(***************************************************************************)
C1_FixedLength ==
    Returned =>
        /\ Len(sample.input_ids) = max_seq_length
        /\ Len(sample.labels) = max_seq_length
        /\ IF kind = "Eval"
           THEN DOMAIN sample = {"input_ids", "labels"}
           ELSE /\ DOMAIN sample = {"input_ids", "attention_mask", "labels"}
                /\ Len(sample.attention_mask) = max_seq_length

C1_Witness ==
    /\ Returned
    /\ kind = "Eval"
    /\ Len(data_list) >= 2
    /\ index = Len(data_list)
    /\ sample.labels[max_seq_length] = ignore_index
    /\ sample.labels[1] # ignore_index

(***************************************************************************)
(* C2: in every sample of the two instruction datasets the label is the    *)
(* ignore sentinel at each position holding a retained prompt token or     *)
(* padding, and at every other position it is the token id stored in       *)
(* input_ids there, which is a retained output token or the eos id.        *)
(***************************************************************************)
C2_LabelMasking ==
    SFTReturned =>
        \A j \in Positions :
            IF j > LastReal \/ sample.input_ids[j] \in PromptIdSet
            THEN sample.labels[j] = ignore_index
            ELSE /\ sample.labels[j] = sample.input_ids[j]
                 /\ sample.labels[j] \in OutputIdSet \cup {eos_token_id}

C2_Witness ==
    /\ SFTReturned
    /\ kind = "Llama"
    /\ PromptLen + OutputLen > Budget
    /\ KeptPrompt >= 1
    /\ KeptOutput >= 1
    /\ LastReal < max_seq_length
    /\ sample.labels[1] = ignore_index
    /\ sample.labels[max_seq_length] = ignore_index

(***************************************************************************)
(* C3: in every sample of the two instruction datasets the attention mask  *)
(* is 1 exactly at the positions holding a real token and 0 at the padded  *)
(* positions: a run of as many 1s as tokens were retained, then only 0s.   *)
(***************************************************************************)
C3_MaskMarksRealTokens ==
    SFTReturned =>
        /\ \A j \in Positions :
               sample.attention_mask[j] = IF j <= LastReal THEN 1 ELSE 0
        /\ \A j \in Positions :
               IF j <= LastReal
               THEN sample.input_ids[j] \in PromptIdSet \cup OutputIdSet \cup {eos_token_id}
               ELSE sample.input_ids[j] = pad_token_id
        /\ LastReal = KeptPrompt + KeptOutput
                        + (IF EosPositions = {} THEN 0 ELSE 1)

C3_Witness ==
    /\ SFTReturned
    /\ kind = "Vicuna"
    /\ PromptLen >= 1
    /\ OutputLen >= 1
    /\ sample.attention_mask[1] = 1
    /\ sample.attention_mask[max_seq_length] = 0
    /\ sample.attention_mask[max_seq_length - 1] = 0

(***************************************************************************)
(* C4: in LlamaSFTDataset, with p prompt tokens, o output tokens and       *)
(* budget b = max_seq_length - 1: when p + o > b the sample keeps the      *)
(* first floor(p*b/(p+o)) prompt tokens and the first floor(o*b/(p+o))     *)
(* output tokens, at most b in all; when p + o <= b nothing is cut.        *)
(***************************************************************************)
C4_ProportionalCut ==
    (Returned /\ kind = "Llama") =>
        LET total == PromptLen + OutputLen IN
        /\ KeptPrompt = IF total > Budget
                        THEN (PromptLen * Budget) \div total ELSE PromptLen
        /\ KeptOutput = IF total > Budget
                        THEN (OutputLen * Budget) \div total ELSE OutputLen
        /\ total > Budget => KeptPrompt + KeptOutput <= Budget
        /\ SubSeq(sample.input_ids, 1, KeptPrompt)
             = SubSeq(prompt_tokens, 1, KeptPrompt)
        /\ SubSeq(sample.input_ids, KeptPrompt + 1, KeptPrompt + KeptOutput)
             = SubSeq(output_tokens, 1, KeptOutput)

(***************************************************************************)
(* C5 (as stated): EvalDataset holds one window per start offset below N,  *)
(* window k holding the stream slice that starts at k * sliding_window;    *)
(* every window but the final one is full, and consecutive windows overlap *)
(* by exactly max_seq_length - sliding_window tokens unless the pair       *)
(* involves the final window.                                              *)
(***************************************************************************)
StreamLen == Len(token_list)
WindowNumbers == 1..Len(data_list)
WindowStart(k) == (k - 1) * sliding_window
WindowRealLen(k) ==
    Cardinality({ j \in Positions : data_list[k].labels[j] # ignore_index })
WindowPositions(k) == (WindowStart(k) + 1)..(WindowStart(k) + WindowRealLen(k))
Overlap(k) == Cardinality(WindowPositions(k) \cap WindowPositions(k + 1))

WindowsAreStridedSlices ==
    /\ Len(data_list)
         = Cardinality({ i \in 0..(StreamLen - 1) : i % sliding_window = 0 })
    /\ \A k \in WindowNumbers :
         LET n == WindowRealLen(k) IN
         /\ WindowStart(k) + n <= StreamLen
         /\ n < max_seq_length => WindowStart(k) + n = StreamLen
         /\ \A j \in Positions :
              /\ data_list[k].input_ids[j] =
                   IF j <= n THEN token_list[WindowStart(k) + j] ELSE pad_token_id
              /\ data_list[k].labels[j] =
                   IF j <= n THEN token_list[WindowStart(k) + j] ELSE ignore_index

C5_OnlyFinalWindowShort ==
    kind = "Eval" =>
        /\ WindowsAreStridedSlices
        /\ \A k \in WindowNumbers :
             k < Len(data_list) =>
                /\ WindowRealLen(k) = max_seq_length
                /\ k + 1 < Len(data_list) =>
                       Overlap(k) = max_seq_length - sliding_window

(***************************************************************************)
(* C5 (amended): EvalDataset holds one window per start offset below N,    *)
(* window k holding the stream slice that starts at k * sliding_window; a  *)
(* window is shorter than max_seq_length before padding exactly when       *)
(* k * sliding_window + max_seq_length > N, which can be the case for      *)
(* several trailing windows; consecutive windows k and k+1 overlap by      *)
(* exactly max_seq_length - sliding_window tokens whenever window k is     *)
(* full and sliding_window <= max_seq_length.                              *)
(***************************************************************************)
C5_StridedWindows ==
    kind = "Eval" =>
        /\ WindowsAreStridedSlices
        /\ \A k \in WindowNumbers :
             /\ WindowRealLen(k) < max_seq_length
                  <=> WindowStart(k) + max_seq_length > StreamLen
             /\ ( /\ k < Len(data_list)
                  /\ WindowRealLen(k) = max_seq_length
                  /\ sliding_window <= max_seq_length )
                  => Overlap(k) = max_seq_length - sliding_window

C5_Witness ==
    /\ Returned
    /\ kind = "Eval"
    /\ Len(data_list) >= 4
    /\ sliding_window >= 2
    /\ sliding_window < max_seq_length
    /\ WindowRealLen(1) = max_seq_length
    /\ WindowRealLen(2) = max_seq_length
    /\ WindowRealLen(Len(data_list) - 1) < max_seq_length
    /\ index = Len(data_list) - 1

(***************************************************************************)
(* C6: when the prompt tokens P and the output tokens O fit together with  *)
(* the eos, both instruction datasets return exactly                       *)
(*   input_ids = P ++ O ++ [eos] ++ pad*k,                                 *)
(*   labels = ignore*len(P) ++ O ++ [eos] ++ ignore*k,                     *)
(*   attention_mask = 1*(len(P)+len(O)+1) ++ 0*k,                          *)
(* with k = max_seq_length - len(P) - len(O) - 1, so the two datasets pack *)
(* the same token sequences identically.                                   *)
(***************************************************************************)
C6_SamePackingWhenFits ==
    (SFTReturned /\ PromptLen + OutputLen + 1 <= max_seq_length) =>
        LET k == max_seq_length - PromptLen - OutputLen - 1
            packed ==
              [ input_ids |-> prompt_tokens \o output_tokens
                                \o <<eos_token_id>> \o [i \in 1..k |-> pad_token_id],
                attention_mask |-> [i \in 1..max_seq_length |->
                                     IF i <= PromptLen + OutputLen + 1 THEN 1 ELSE 0],
                labels |-> [i \in 1..PromptLen |-> ignore_index] \o output_tokens
                             \o <<eos_token_id>> \o [i \in 1..k |-> ignore_index] ]
        IN  /\ sample = packed
            /\ VicunaSample(prompt_tokens, output_tokens,
                            max_seq_length, pad_token_id) = packed
            /\ LlamaSample(prompt_tokens, output_tokens,
                           max_seq_length, pad_token_id) = packed

C6_Witness ==
    /\ SFTReturned
    /\ kind = "Llama"
    /\ max_seq_length = 8
    /\ pad_token_id = 0
    /\ PromptLen = 3
    /\ OutputLen = 2
    /\ sample.input_ids = <<101, 102, 103, 201, 202, eos_token_id, 0, 0>>
    /\ sample.labels = <<ignore_index, ignore_index, ignore_index, 201, 202,
                         eos_token_id, ignore_index, ignore_index>>
    /\ sample.attention_mask = <<1, 1, 1, 1, 1, 1, 0, 0>>

(***************************************************************************)
(* C7 (as stated): in LlamaSFTDataset, whenever a non-empty output is cut  *)
(* (o >= 1, p + o > max_seq_length - 1) at least one output token is       *)
(* retained, so the labels hold a response token besides the eos.          *)
(***************************************************************************)
C7_SomeOutputAlwaysKept ==
    (Returned /\ kind = "Llama" /\ OutputLen >= 1
       /\ PromptLen + OutputLen > Budget) =>
        /\ KeptOutput >= 1
        /\ \E j \in Positions : sample.labels[j] \in OutputIdSet

(***************************************************************************)
(* C7 (amended): in LlamaSFTDataset, when p + o > max_seq_length - 1, at   *)
(* least one output token is retained whenever the output's share of the   *)
(* budget exceeds one token, o * (max_seq_length - 1) > p + o; when the    *)
(* share is below one token, o * (max_seq_length - 1) < p + o, no output   *)
(* token is retained and the eos is the only label that is not ignored.    *)
(***************************************************************************)
C7_OutputKeptByShare ==
    (Returned /\ kind = "Llama" /\ PromptLen + OutputLen > Budget) =>
        /\ OutputLen * Budget > PromptLen + OutputLen =>
             /\ KeptOutput >= 1
             /\ \E j \in Positions : sample.labels[j] \in OutputIdSet
        /\ OutputLen * Budget < PromptLen + OutputLen =>
             /\ KeptOutput = 0
             /\ \A j \in Positions :
                  sample.labels[j] \in {ignore_index, eos_token_id}

C7_Witness ==
    /\ Returned
    /\ kind = "Llama"
    /\ PromptLen + OutputLen > Budget
    /\ OutputLen >= 1
    /\ OutputLen * Budget < PromptLen + OutputLen
    /\ KeptPrompt >= 1
    /\ KeptOutput = 0

(***************************************************************************)
(* C8: in every sample of LlamaSFTDataset, cut or not, the eos id follows  *)
(* the retained prompt and output tokens and is the last real token: at    *)
(* that position input_ids and labels hold the eos id and the mask is 1,   *)
(* and every later position is padding.                                    *)
(***************************************************************************)
C8_EosIsLastRealToken ==
    (Returned /\ kind = "Llama") =>
        LET e == KeptPrompt + KeptOutput + 1 IN
        /\ e <= max_seq_length
        /\ \A j \in 1..(e - 1) :
             sample.input_ids[j] \in PromptIdSet \cup OutputIdSet
        /\ sample.input_ids[e] = eos_token_id
        /\ sample.labels[e] = eos_token_id
        /\ sample.attention_mask[e] = 1
        /\ \A j \in (e + 1)..max_seq_length :
             /\ sample.input_ids[j] = pad_token_id
             /\ sample.labels[j] = ignore_index
             /\ sample.attention_mask[j] = 0

C8_Witness ==
    /\ Returned
    /\ kind = "Llama"
    /\ PromptLen + OutputLen > Budget
    /\ KeptPrompt < PromptLen
    /\ KeptOutput < OutputLen
    /\ KeptOutput >= 1
    /\ sample.input_ids[KeptPrompt + KeptOutput + 1] = eos_token_id
    /\ KeptPrompt + KeptOutput + 1 < max_seq_length

(***************************************************************************)
(* C9: VicunaSFTDataset cuts from the end: the real tokens of the sample   *)
(* are the first min(p + o + 1, max_seq_length) elements of                *)
(* prompt ++ output ++ [eos], the labels are cut at the same index, the    *)
(* eos survives exactly when p + o + 1 <= max_seq_length, and when         *)
(* p >= max_seq_length every label is the ignore sentinel.                 *)
(***************************************************************************)
C9_HardCutFromEnd ==
    (Returned /\ kind = "Vicuna") =>
        LET full    == prompt_tokens \o output_tokens \o <<eos_token_id>>
            fullLab == [i \in 1..PromptLen |-> ignore_index]
                         \o output_tokens \o <<eos_token_id>>
            n       == Min(PromptLen + OutputLen + 1, max_seq_length)
        IN  /\ \A j \in Positions :
                 /\ sample.input_ids[j] = IF j <= n THEN full[j] ELSE pad_token_id
                 /\ sample.labels[j] = IF j <= n THEN fullLab[j] ELSE ignore_index
                 /\ sample.attention_mask[j] = IF j <= n THEN 1 ELSE 0
            /\ (\E j \in 1..n : sample.input_ids[j] = eos_token_id)
                 <=> PromptLen + OutputLen + 1 <= max_seq_length
            /\ PromptLen >= max_seq_length =>
                 \A j \in Positions : sample.labels[j] = ignore_index

C9_Witness ==
    /\ Returned
    /\ kind = "Vicuna"
    /\ OutputLen >= 2
    /\ PromptLen < max_seq_length
    /\ PromptLen + OutputLen + 1 > max_seq_length
    /\ sample.input_ids[max_seq_length] \in OutputIdSet
    /\ sample.labels[1] = ignore_index

(***************************************************************************)
(* C10: every access to LlamaSFTDataset, for any prompt length, output     *)
(* length and max_seq_length >= 1, returns a sample: neither assertion     *)
(* fails and the scale computation is defined.                             *)
(***************************************************************************)
C10_AccessAlwaysReturns ==
    (kind = "Llama" /\ status # "constructed") => Returned

====
